---- MODULE Spec2Model ----
(***************************************************************************)
(* Model of the live face-swap pipeline: CameraProcessor (camera.py) with  *)
(* its capture worker, processing worker and the client-facing operations, *)
(* and FaceSwapper (core.py) with its source reference and swap pass.      *)
(*                                                                         *)
(* Threads: one client thread (the GUI / CLI main thread) that calls       *)
(* start, stop, get_frame; the capture worker; the processing worker.      *)
(* Every access to shared state (a queue operation, a read or write of a   *)
(* field) is one step, so that the workers and the client interleave at    *)
(* the granularity the Python code allows.                                 *)
(***************************************************************************)
EXTENDS Integers, Sequences, FiniteSets, TLC

\* ---------------------------------------------------------------- bounds
\* Number of frames the camera delivers over the whole run.
MaxFrames == 3
\* Number of successful start() calls explored.
MaxStarts == 2
\* Number of distinct source reference images offered to set_source_face.
MaxRefs == 2
\* Largest number of faces detected in one target frame.
MaxFaces == 2
\* Number of frames the camera delivers while the profile is being switched.
MaxProfileFrames == 3
\* Number of set_performance_mode calls the client makes.
MaxModeCalls == 1
\* Number of frames the camera delivers in the frame-skip scenario.
MaxSkipFrames == 10
\* Number of frames the camera delivers while lip sync is toggled.
MaxLipFrames == 3
\* Number of frames the camera delivers in the frame-rate scenario.
MaxFpsFrames == 3

\* ------------------------------------------------------ program constants
\* queue.Queue(maxsize=2), camera.py:43-44
QueueMax == 2

\* ------------------------------------------------------------ state
VARIABLES
    is_running,            \* self.is_running
    cap,                   \* self.cap: "None", "opened" or "closed" (object that failed to open)
    capture_thread,        \* self.capture_thread: "None", "alive" or "dead"
    process_thread,        \* self.process_thread: "None", "alive" or "dead"
    input_queue,           \* self.input_queue, oldest first
    output_queue,          \* self.output_queue, oldest first
    frame_counter,         \* self.frame_counter
    skip_frames,           \* self.skip_frames
    c_pc, c_frame,         \* capture worker: position, frame just read
    p_pc, p_frame, p_out,  \* processing worker: position, raw frame, processed_frame
    last_processed_frame,  \* local of _process_loop
    callback_frame,        \* the frame most recently handed to frame_callback
    ctl_pc,                \* client thread: "idle" or its position inside stop()
    call,                  \* the client's most recent call: [op, ret, pre]
    next_frame,            \* the camera: id of the next frame it delivers
    starts,                \* number of successful start() calls so far
    in_since,              \* frames put into input_queue since its consumer last took one
    out_since,             \* frames put into output_queue since its consumer last took one
    source_face,           \* FaceSwapper.source_face: 0 (None) or a reference id
    swapper_loaded,        \* FaceSwapper.face_swapper is not None
    s_pc,                  \* process_frame: position
    s_faces,               \* process_frame: target faces still to swap
    s_used,                \* source references passed to the swap model in this pass
    s_result,              \* process_frame: what the pass returned
    set_ret,               \* set_source_face: [input, ret, before] of the last call
    s_had_source,          \* process_frame: a source face was set at line 133 of this pass
    s_detected,            \* process_frame: face_app.get was invoked in this pass
    s_fail,                \* process_frame: what raised in this pass ("none", "detect", "swap")
    s_buf,                 \* process_frame: the local result, as the swaps composited onto the copy
    s_in,                  \* process_frame: the image each face_swapper.get call was given
    s_found,               \* process_frame: number of faces face_app.get returned
    s_frame,               \* process_frame: the caller's frame, "intact" or "drawn" on
    resolution_scale,      \* self.resolution_scale, in tenths (0.5 is 5)
    mode_arg,              \* set_performance_mode: the mode of the last call
    mode_calls,            \* set_performance_mode: number of calls made so far
    camera_frames,         \* the camera: number of frames it delivers in this scenario
    env_faults,            \* whether the external stages and the callback can raise
    p_skip,                \* processing worker: self.skip_frames as read at line 169
    p_sw, p_sh,            \* processing worker: self.resolution_scale as read at lines 174, 175
    p_error,               \* processing worker: what raised since the last frame was popped
    prev_out,              \* the output frame of the previous completed iteration of this run
    last_full,             \* the most recent full pass of this run: [c, out]
    full_passes,           \* number of full pipeline passes completed
    captured,              \* for each frame, self.skip_frames when the camera delivered it
    l_enabled,             \* LipSyncProcessor.enabled
    l_ret,                 \* LipSyncProcessor.process_frame: the last call and its result
    l_model,               \* whether the landmark model file loads in LipSyncProcessor.__init__
    lip_sync,              \* self.lip_sync: "None" or "engine"
    enable_lip_sync,       \* self.enable_lip_sync
    p_lip,                 \* processing worker: what the lip-sync stage did in the pass just made
    frame_callback,        \* self.frame_callback: "None" or "registered"
    clock,                 \* how time passes: "each_frame" (every frame takes more than a second) or "free"
    frame_count,           \* self.frame_count
    fps_window,            \* whether the last test of line 201 found the window closed
    cb_calls, pushes,      \* callback calls and output pushes made for the frame counted last
    c_waited,              \* capture worker: the pass of the loop just made took the wait of line 155
    reads_after_stop,      \* device reads made since stop() cleared the flag
    puts_after_stop,       \* raw frames pushed since stop() cleared the flag
    iters_after_stop,      \* frames in flight at, or counted since, stop() cleared the flag
    n_capture, n_process,  \* threads launched and not yet finished
    g_ret,                 \* a second client thread: what its last get_frame() returned
    run_from               \* the camera's next_frame when the current run was started

pipeVars == <<is_running, cap, capture_thread, process_thread, input_queue,
              output_queue, frame_counter, skip_frames, c_pc, c_frame, p_pc,
              p_frame, p_out, last_processed_frame, callback_frame, ctl_pc,
              call, next_frame, starts, in_since, out_since>>

bufVars == <<s_buf, s_in, s_found, s_frame>>

swapVars == <<source_face, swapper_loaded, s_pc, s_faces, s_used, s_result, set_ret,
              s_had_source, s_detected, s_fail, bufVars>>

cfgVars == <<resolution_scale, mode_arg, mode_calls, camera_frames, env_faults,
             frame_callback, clock>>

procVars == <<p_skip, p_sw, p_sh, p_error, prev_out, last_full, full_passes>>

lipVars == <<l_enabled, l_ret, l_model, lip_sync, enable_lip_sync, p_lip>>

fpsVars == <<frame_count, fps_window>>

iterVars == <<cb_calls, pushes>>

stopVars == <<reads_after_stop, puts_after_stop, iters_after_stop>>

thrVars == <<n_capture, n_process>>

ghostVars == <<fpsVars, iterVars, stopVars, thrVars, c_waited>>

vars == <<pipeVars, swapVars, cfgVars, procVars, captured, lipVars, ghostVars, g_ret, run_from>>

\* ------------------------------------------------------------ values
NoFrame == 0
Frames == 1..MaxFrames

\* An output frame: the raw frame it derives from, and whether it is the
\* result of a full pipeline pass.
NoOutput == [raw |-> 0, full |-> FALSE]

LastTwo(s) == IF Len(s) <= QueueMax THEN s ELSE SubSeq(s, Len(s) - QueueMax + 1, Len(s))

\* ------------------------------------------------------ queue.Queue
\* full()
QFullNever(q) == FALSE

QFull(q) == Len(q) >= QueueMax

QEmpty(q) == Len(q) = 0

\* get_nowait(): the oldest item leaves; an empty queue raises queue.Empty,
\* which every caller in the loops swallows, leaving the queue as it is.
QGetNowait(q) == IF Len(q) > 0 THEN Tail(q) ELSE q

\* get(): the oldest item leaves the queue and is returned
QPopNewest(q) == [item |-> q[Len(q)], rest |-> SubSeq(q, 1, Len(q) - 1)]

QPop(q) == [item |-> Head(q), rest |-> Tail(q)]

\* put_nowait(x): appended at the tail; a full queue raises queue.Full,
\* which every caller swallows, leaving the queue as it is.
QPutNowait(q, x) == IF Len(q) < QueueMax THEN Append(q, x) ELSE q

\* ------------------------------------------------------------ Init
\* CameraProcessor.__init__ and FaceSwapper.__init__
PipeInit ==
    /\ is_running = FALSE
    /\ cap = "None"
    /\ capture_thread = "None"
    /\ process_thread = "None"
    /\ input_queue = <<>>
    /\ output_queue = <<>>
    /\ frame_counter = 0
    /\ skip_frames = 2
    /\ c_pc = "c_exit"
    /\ c_frame = NoFrame
    /\ p_pc = "p_exit"
    /\ p_frame = NoFrame
    /\ p_out = NoOutput
    /\ last_processed_frame = NoOutput
    /\ callback_frame = NoOutput
    /\ ctl_pc = "idle"
    /\ call = [op |-> "init", ret |-> NoOutput, ok |-> TRUE, pre |-> FALSE]
    /\ next_frame = 1
    /\ starts = 0
    /\ in_since = <<>>
    /\ out_since = <<>>
    /\ resolution_scale = 5
    /\ mode_arg = "none"
    /\ mode_calls = 0
    /\ p_skip = 0
    /\ p_sw = 0
    /\ p_sh = 0
    /\ p_error = "none"
    /\ prev_out = NoOutput
    /\ last_full = [c |-> 0, out |-> NoOutput]
    /\ full_passes = 0
    /\ captured = <<>>
    /\ frame_count = 0
    /\ fps_window = "open"
    /\ cb_calls = 0
    /\ pushes = 0
    /\ c_waited = FALSE
    /\ reads_after_stop = 0
    /\ puts_after_stop = 0
    /\ iters_after_stop = 0
    /\ n_capture = 0
    /\ n_process = 0
    /\ g_ret = [op |-> "init", ret |-> NoOutput, ok |-> TRUE]
    /\ run_from = 1

SwapInit ==
    /\ source_face = 0
    /\ swapper_loaded \in BOOLEAN
    /\ s_pc = "s_idle"
    /\ s_faces = <<>>
    /\ s_used = <<>>
    /\ s_result = "none"
    /\ set_ret = [input |-> "none", ret |-> TRUE, before |-> 0]
    /\ s_had_source = FALSE
    /\ s_detected = FALSE
    /\ s_fail = "none"
    /\ s_buf = <<>>
    /\ s_in = <<>>
    /\ s_found = 0
    /\ s_frame = "intact"

\* LipSyncProcessor.__init__, lip_sync.py lines 13-27: enabled is true when the
\* landmark models load, false when they do not
NoRect == [x |-> 0, y |-> 0, w |-> 0, h |-> 0]

\* get_mouth_landmarks returns None
NoLandmarks == [found |-> FALSE, rect |-> NoRect]

\* camera.py lines 59-65: self.lip_sync is the engine and enable_lip_sync is
\* true when the lip_sync module imports, else None and false
LipInit ==
    /\ l_model \in BOOLEAN
    /\ l_enabled = l_model
    /\ lip_sync \in {"None", "engine"}
    /\ enable_lip_sync = (lip_sync = "engine")
    /\ p_lip = "none"
    /\ l_ret = [kind |-> "none", detects |-> 0, transfer |-> FALSE,
                sface |-> NoLandmarks, tface |-> NoLandmarks, clone_ok |-> FALSE,
                src |-> NoRect, tgt |-> NoRect]

\* The scenario of Spec: the camera delivers MaxFrames frames, and the
\* external stages and the callback may raise.
Init ==
    /\ PipeInit /\ SwapInit /\ swapper_loaded = TRUE
    /\ LipInit /\ l_enabled = TRUE /\ lip_sync = "engine"
    /\ frame_callback = "registered"
    /\ clock = "each_frame"
    /\ camera_frames = MaxFrames
    /\ env_faults = TRUE


\* ------------------------------------------------------------ client: start()
\* line 90: if self.is_running: return True
AlreadyRunningIgnored == FALSE

AlreadyRunning == is_running

\* line 95: if not self.cap.isOpened(): return False
OpenFailedIgnored(ok) == FALSE

OpenFailed(ok) == ~ok

\* start(), lines 88-116. ok: whether cv2.VideoCapture(camera_id) opens the device.
\* One step: until line 113 the client is the only thread that runs, and the
\* capture worker reads nothing that lines 113-114 write.
\* line 159: last_processed_frame = None, a local the new processing thread
\* creates for itself
FreshLocalKept(old) == old

FreshLocal(old) == NoOutput

Start(ok) ==
    /\ ctl_pc = "idle"
    /\ IF AlreadyRunning
       THEN /\ call' = [op |-> "start", ret |-> NoOutput, ok |-> TRUE, pre |-> is_running]
            /\ UNCHANGED <<is_running, cap, capture_thread, process_thread, c_pc,
                           c_frame, p_pc, p_frame, p_out, last_processed_frame, starts>>
            /\ UNCHANGED <<p_skip, p_sw, p_sh, p_error, prev_out, last_full>>
            /\ UNCHANGED <<iterVars, stopVars, thrVars, c_waited, run_from>>
       ELSE /\ cap' = IF ok THEN "opened" ELSE "closed"
            /\ IF OpenFailed(ok)
               THEN /\ call' = [op |-> "start", ret |-> NoOutput, ok |-> FALSE, pre |-> is_running]
                    /\ UNCHANGED <<is_running, capture_thread, process_thread, c_pc,
                                   c_frame, p_pc, p_frame, p_out, last_processed_frame, starts>>
                    /\ UNCHANGED <<p_skip, p_sw, p_sh, p_error, prev_out, last_full>>
                    /\ UNCHANGED <<iterVars, stopVars, thrVars, c_waited, run_from>>
               ELSE /\ starts < MaxStarts
                    /\ starts' = starts + 1
                    /\ is_running' = TRUE
                    /\ capture_thread' = "alive"
                    /\ process_thread' = "alive"
                    /\ c_pc' = "c_while"
                    /\ c_frame' = NoFrame
                    /\ p_pc' = "p_while"
                    /\ p_frame' = NoFrame
                    /\ p_out' = NoOutput
                    /\ last_processed_frame' = FreshLocal(last_processed_frame)
                    /\ run_from' = next_frame
                    /\ p_skip' = 0 /\ p_sw' = 0 /\ p_sh' = 0
                    /\ p_error' = "none"
                    /\ prev_out' = NoOutput
                    /\ last_full' = [c |-> 0, out |-> NoOutput]
                    /\ n_capture' = n_capture + 1
                    /\ n_process' = n_process + 1
                    /\ c_waited' = FALSE
                    /\ cb_calls' = 0 /\ pushes' = 0
                    /\ reads_after_stop' = 0 /\ puts_after_stop' = 0
                    /\ iters_after_stop' = 0
                    /\ call' = [op |-> "start", ret |-> NoOutput, ok |-> TRUE, pre |-> is_running]
    /\ UNCHANGED <<input_queue, output_queue, frame_counter, skip_frames, callback_frame,
                   ctl_pc, next_frame, in_since, out_since>>
    /\ UNCHANGED <<cfgVars, full_passes, captured>>
    /\ UNCHANGED <<swapVars, lipVars, fpsVars>>
    /\ UNCHANGED g_ret

\* ------------------------------------------------------------ client: stop()
\* Thread.join() returns once the thread has finished; "if self.capture_thread:"
\* skips the join when no thread was ever created (lines 122-125).
JoinReturnsNoNoneCheck(t) == t = "dead"

JoinReturnsAlways(t) == TRUE

JoinReturns(t) == t # "alive"

\* line 120: self.is_running = False
StopBegin ==
    /\ ctl_pc = "idle"
    /\ is_running' = FALSE
    /\ ctl_pc' = "join_capture"
    /\ call' = [op |-> "stop", ret |-> NoOutput, ok |-> TRUE, pre |-> is_running]
    /\ UNCHANGED <<cap, capture_thread, process_thread, input_queue, output_queue,
                   frame_counter, skip_frames, c_pc, c_frame, p_pc, p_frame, p_out,
                   last_processed_frame, callback_frame, next_frame, starts,
                   in_since, out_since>>
    /\ UNCHANGED <<cfgVars, procVars, captured>>
    /\ reads_after_stop' = 0
    /\ puts_after_stop' = 0
    /\ iters_after_stop' = IF process_thread = "alive" /\ p_frame # NoFrame /\ p_pc # "p_proc"
                            THEN 1 ELSE 0
    /\ UNCHANGED <<swapVars, lipVars, fpsVars, iterVars, thrVars, c_waited>>
    /\ UNCHANGED <<g_ret, run_from>>

\* lines 122-123
StopJoinCapture ==
    /\ ctl_pc = "join_capture"
    /\ JoinReturns(capture_thread)
    /\ ctl_pc' = "join_process"
    /\ UNCHANGED <<is_running, cap, capture_thread, process_thread, input_queue,
                   output_queue, frame_counter, skip_frames, c_pc, c_frame, p_pc,
                   p_frame, p_out, last_processed_frame, callback_frame, call,
                   next_frame, starts, in_since, out_since>>
    /\ UNCHANGED <<cfgVars, procVars, captured>>
    /\ UNCHANGED <<swapVars, lipVars, ghostVars>>
    /\ UNCHANGED <<g_ret, run_from>>

\* lines 124-125
StopJoinProcess ==
    /\ ctl_pc = "join_process"
    /\ JoinReturns(process_thread)
    /\ ctl_pc' = "release"
    /\ UNCHANGED <<is_running, cap, capture_thread, process_thread, input_queue,
                   output_queue, frame_counter, skip_frames, c_pc, c_frame, p_pc,
                   p_frame, p_out, last_processed_frame, callback_frame, call,
                   next_frame, starts, in_since, out_since>>
    /\ UNCHANGED <<cfgVars, procVars, captured>>
    /\ UNCHANGED <<swapVars, lipVars, ghostVars>>
    /\ UNCHANGED <<g_ret, run_from>>

\* lines 127-129: if self.cap: self.cap.release(); self.cap = None
StopReleaseSkipped == cap

StopRelease == "None"

StopReleaseCap ==
    /\ ctl_pc = "release"
    /\ cap' = StopRelease
    /\ ctl_pc' = "drain_in"
    /\ reads_after_stop' = 0
    /\ puts_after_stop' = 0
    /\ iters_after_stop' = 0
    /\ UNCHANGED <<is_running, capture_thread, process_thread, input_queue,
                   output_queue, frame_counter, skip_frames, c_pc, c_frame, p_pc,
                   p_frame, p_out, last_processed_frame, callback_frame, call,
                   next_frame, starts, in_since, out_since>>
    /\ UNCHANGED <<cfgVars, procVars, captured>>
    /\ UNCHANGED <<swapVars, lipVars, fpsVars, iterVars, thrVars, c_waited>>
    /\ UNCHANGED <<g_ret, run_from>>

\* line 132: while not self.input_queue.empty()
StopDrainInCheck ==
    /\ ctl_pc = "drain_in"
    /\ ctl_pc' = IF QEmpty(input_queue) THEN "drain_out" ELSE "drain_in_get"
    /\ UNCHANGED <<is_running, cap, capture_thread, process_thread, input_queue,
                   output_queue, frame_counter, skip_frames, c_pc, c_frame, p_pc,
                   p_frame, p_out, last_processed_frame, callback_frame, call,
                   next_frame, starts, in_since, out_since>>
    /\ UNCHANGED <<cfgVars, procVars, captured>>
    /\ UNCHANGED <<swapVars, lipVars, ghostVars>>
    /\ UNCHANGED <<g_ret, run_from>>

\* line 133: self.input_queue.get(), a blocking get
StopDrainInGet ==
    /\ ctl_pc = "drain_in_get"
    /\ ~QEmpty(input_queue)
    /\ input_queue' = Tail(input_queue)
    /\ in_since' = <<>>
    /\ ctl_pc' = "drain_in"
    /\ UNCHANGED <<is_running, cap, capture_thread, process_thread,
                   output_queue, frame_counter, skip_frames, c_pc, c_frame, p_pc,
                   p_frame, p_out, last_processed_frame, callback_frame, call,
                   next_frame, starts, out_since>>
    /\ UNCHANGED <<cfgVars, procVars, captured>>
    /\ UNCHANGED <<swapVars, lipVars, ghostVars>>
    /\ UNCHANGED <<g_ret, run_from>>

\* line 134: while not self.output_queue.empty(); stop() returns when it is
StopDrainOutCheck ==
    /\ ctl_pc = "drain_out"
    /\ ctl_pc' = IF QEmpty(output_queue) THEN "idle" ELSE "drain_out_get"
    /\ UNCHANGED <<is_running, cap, capture_thread, process_thread, input_queue,
                   output_queue, frame_counter, skip_frames, c_pc, c_frame, p_pc,
                   p_frame, p_out, last_processed_frame, callback_frame, call,
                   next_frame, starts, in_since, out_since>>
    /\ UNCHANGED <<cfgVars, procVars, captured>>
    /\ UNCHANGED <<swapVars, lipVars, ghostVars>>
    /\ UNCHANGED <<g_ret, run_from>>

\* line 135: self.output_queue.get(), a blocking get
StopDrainOutGet ==
    /\ ctl_pc = "drain_out_get"
    /\ ~QEmpty(output_queue)
    /\ output_queue' = Tail(output_queue)
    /\ out_since' = <<>>
    /\ ctl_pc' = "drain_out"
    /\ UNCHANGED <<is_running, cap, capture_thread, process_thread, input_queue,
                   frame_counter, skip_frames, c_pc, c_frame, p_pc,
                   p_frame, p_out, last_processed_frame, callback_frame, call,
                   next_frame, starts, in_since>>
    /\ UNCHANGED <<cfgVars, procVars, captured>>
    /\ UNCHANGED <<swapVars, lipVars, ghostVars>>
    /\ UNCHANGED <<g_ret, run_from>>

StopStep ==
    \/ StopJoinCapture \/ StopJoinProcess \/ StopReleaseCap
    \/ StopDrainInCheck \/ StopDrainInGet \/ StopDrainOutCheck \/ StopDrainOutGet

\* ------------------------------------------------------------ client: get_frame()
\* lines 250-255: output_queue.get_nowait(), None on queue.Empty
GetFrameResult(q) == IF QEmpty(q) THEN NoOutput ELSE Head(q)

GetFrame ==
    /\ ctl_pc = "idle"
    /\ call' = [op |-> "get_frame", ret |-> GetFrameResult(output_queue),
                ok |-> ~QEmpty(output_queue), pre |-> is_running]
    /\ output_queue' = QGetNowait(output_queue)
    /\ out_since' = IF QEmpty(output_queue) THEN out_since ELSE <<>>
    /\ UNCHANGED <<is_running, cap, capture_thread, process_thread, input_queue,
                   frame_counter, skip_frames, c_pc, c_frame, p_pc,
                   p_frame, p_out, last_processed_frame, callback_frame, ctl_pc,
                   next_frame, starts, in_since>>
    /\ UNCHANGED <<cfgVars, procVars, captured>>
    /\ UNCHANGED <<swapVars, lipVars, ghostVars>>
    /\ UNCHANGED <<g_ret, run_from>>


\* ------------------------------------------------------------ LipSyncProcessor
\* The frames handed to the engine are camera frames, 640 x 480 (camera.py:100-101).
ImgW == 640
ImgH == 480
\* lip_sync.py:84
Padding == 10

\* cv2.boundingRect of the mouth landmarks the predictor places in a frame:
\* inside the frame, against its borders, and beyond them.
MouthRects ==
    { [x |-> 300, y |-> 350, w |-> 60, h |-> 30],
      [x |-> 5,   y |-> 5,   w |-> 40, h |-> 20],
      [x |-> 600, y |-> 460, w |-> 38, h |-> 18],
      [x |-> 640, y |-> 200, w |-> 20, h |-> 10],
      [x |-> 650, y |-> 490, w |-> 20, h |-> 10],
      [x |-> -5,  y |-> 100, w |-> 30, h |-> 15] }

\* What the detector and the predictor find in a frame: no face, or the
\* mouth landmarks of the first face.
Landmarks == {NoLandmarks} \cup {[found |-> TRUE, rect |-> r] : r \in MouthRects}

Max(a, b) == IF a >= b THEN a ELSE b

Min(a, b) == IF a <= b THEN a ELSE b

\* lines 39 and 149: if not self.enabled
DisabledNever(en) == FALSE

Disabled(en) == ~en

\* get_mouth_landmarks, lines 29-56
GetMouthLandmarks(en, face) == IF Disabled(en) THEN NoLandmarks ELSE face

\* line 72: if source_mouth is None or target_mouth is None
MissingLandmarksSourceOnly(sm, tm) == ~sm.found

MissingLandmarks(sm, tm) == ~sm.found \/ ~tm.found

\* lines 84-93: the rectangle grown by the padding and clamped to the frame
PadRect(r) ==
    LET px == Max(0, r.x - Padding)
        py == Max(0, r.y - Padding)
    IN  [x |-> px, y |-> py,
         w |-> Min(ImgW - px, r.w + 2 * Padding),
         h |-> Min(ImgH - py, r.h + 2 * Padding)]

\* lines 97-100: source_frame[sy:sy+sh, sx:sx+sw] has no pixel (size 0) when
\* the padded width or height is zero or negative
RegionEmpty(r) == r.w <= 0 \/ r.h <= 0

\* line 101: cv2.resize(region, (tw, th)) raises on a zero or negative size;
\* "except Exception" of line 133 absorbs it
ResizeRaisesNever(t) == FALSE

ResizeRaises(t) == t.w <= 0 \/ t.h <= 0

\* lines 120-129: seamlessClone raises (or is missing from the build); the
\* bare except of line 128 leaves result as the alpha blend of lines 114-117
OnCloneErrorToOuter == "target"

OnCloneError == "blend"

\* transfer_mouth, lines 58-136. Landmarks that are None past line 73 make
\* line 77 or 80 raise outside the try; an empty source region skips the
\* transfer; cv2.resize to an empty target size raises inside the try and is
\* absorbed; a failing seamlessClone leaves the alpha blend.
TransferMouth(sm, tm, clone_ok) ==
    IF MissingLandmarks(sm, tm)
    THEN [kind |-> "target", src |-> NoRect, tgt |-> NoRect]
    ELSE IF ~sm.found \/ ~tm.found
    THEN [kind |-> "raised", src |-> NoRect, tgt |-> NoRect]
    ELSE LET s == PadRect(sm.rect)
             t == PadRect(tm.rect)
         IN  [kind |-> IF ~RegionEmpty(s)
                       THEN IF ResizeRaises(t)
                            THEN "target"
                            ELSE IF clone_ok THEN "seamless" ELSE OnCloneError
                       ELSE "target",
              src |-> s, tgt |-> t]

\* process_frame, lines 138-157, for a source frame and a swapped frame in
\* which the detector would find sface and tface
LipProcessFrame ==
    /\ \E sface \in Landmarks, tface \in Landmarks, clone_ok \in BOOLEAN :
         IF Disabled(l_enabled)
         THEN l_ret' = [kind |-> "target", detects |-> 0, transfer |-> FALSE,
                        sface |-> sface, tface |-> tface, clone_ok |-> clone_ok,
                        src |-> NoRect, tgt |-> NoRect]
         ELSE LET sm == GetMouthLandmarks(l_enabled, sface)
                  tm == GetMouthLandmarks(l_enabled, tface)
                  r == TransferMouth(sm, tm, clone_ok)
              IN  l_ret' = [kind |-> r.kind,
                            detects |-> (IF Disabled(l_enabled) THEN 0 ELSE 2),
                            transfer |-> TRUE,
                            sface |-> sface, tface |-> tface, clone_ok |-> clone_ok,
                            src |-> r.src, tgt |-> r.tgt]
    /\ UNCHANGED <<l_enabled, l_model, lip_sync, enable_lip_sync, p_lip>>
    /\ UNCHANGED <<pipeVars, swapVars, cfgVars, procVars, captured, ghostVars>>
    /\ UNCHANGED <<g_ret, run_from>>

\* ------------------------------------------------------------ capture worker
\* _capture_loop, lines 137-155

\* lines 139 and 161: while self.is_running
LoopTestAlways(flag) == TRUE

LoopTest(flag) == flag

\* line 139: while self.is_running; the thread ends when the flag is false
CaptureWhile ==
    /\ capture_thread = "alive"
    /\ c_pc = "c_while"
    /\ IF LoopTest(is_running)
       THEN c_pc' = "c_read" /\ UNCHANGED <<capture_thread, n_capture, c_waited>>
       ELSE /\ c_pc' = "c_exit" /\ capture_thread' = "dead"
            /\ n_capture' = n_capture - 1
            /\ c_waited' = FALSE
    /\ UNCHANGED <<is_running, cap, process_thread, input_queue, output_queue,
                   frame_counter, skip_frames, c_frame, p_pc, p_frame, p_out,
                   last_processed_frame, callback_frame, ctl_pc, call, next_frame,
                   starts, in_since, out_since>>
    /\ UNCHANGED <<cfgVars, procVars, captured>>
    /\ UNCHANGED <<swapVars, lipVars, fpsVars, iterVars, stopVars, n_process>>
    /\ UNCHANGED <<g_ret, run_from>>

\* lines 140-142 and 154-155: with an open device, cap.read() delivers the
\* camera's next frame (ret true) or fails (ret false: "if ret:" has no else,
\* so straight back to the loop test); without one, time.sleep(0.01), the
\* else of line 140, and back to the loop test.
CaptureRead ==
    /\ capture_thread = "alive"
    /\ c_pc = "c_read"
    /\ IF cap = "opened"
       THEN /\ reads_after_stop' = IF is_running THEN reads_after_stop ELSE reads_after_stop + 1
            /\ \/ /\ next_frame <= camera_frames
                  /\ c_frame' = next_frame
                  /\ next_frame' = next_frame + 1
                  /\ captured' = Append(captured, skip_frames)
                  /\ c_pc' = "c_full"
                  /\ c_waited' = FALSE
               \/ /\ c_pc' = "c_while"
                  /\ c_waited' = FALSE
                  /\ UNCHANGED <<c_frame, next_frame, captured>>
       ELSE /\ c_pc' = "c_while"
            /\ c_waited' = TRUE
            /\ UNCHANGED <<c_frame, next_frame, captured, reads_after_stop>>
    /\ UNCHANGED <<is_running, cap, capture_thread, process_thread, input_queue,
                   output_queue, frame_counter, skip_frames, p_pc, p_frame, p_out,
                   last_processed_frame, callback_frame, ctl_pc, call,
                   starts, in_since, out_since>>
    /\ UNCHANGED <<cfgVars, procVars>>
    /\ UNCHANGED <<swapVars, lipVars, fpsVars, iterVars, thrVars, puts_after_stop,
                   iters_after_stop>>
    /\ UNCHANGED <<g_ret, run_from>>

\* line 144: if self.input_queue.full()
CaptureFull ==
    /\ capture_thread = "alive"
    /\ c_pc = "c_full"
    /\ c_pc' = IF QFull(input_queue) THEN "c_evict" ELSE "c_put"
    /\ UNCHANGED <<is_running, cap, capture_thread, process_thread, input_queue,
                   output_queue, frame_counter, skip_frames, c_frame, p_pc, p_frame,
                   p_out, last_processed_frame, callback_frame, ctl_pc, call,
                   next_frame, starts, in_since, out_since>>
    /\ UNCHANGED <<cfgVars, procVars, captured>>
    /\ UNCHANGED <<swapVars, lipVars, ghostVars>>
    /\ UNCHANGED <<g_ret, run_from>>

\* lines 145-148: the producer's eviction, get_nowait() with the error swallowed
EvictNone(q) == q

Evict(q) == QGetNowait(q)

CaptureEvict ==
    /\ capture_thread = "alive"
    /\ c_pc = "c_evict"
    /\ input_queue' = Evict(input_queue)
    /\ c_pc' = "c_put"
    /\ UNCHANGED <<is_running, cap, capture_thread, process_thread,
                   output_queue, frame_counter, skip_frames, c_frame, p_pc, p_frame,
                   p_out, last_processed_frame, callback_frame, ctl_pc, call,
                   next_frame, starts, in_since, out_since>>
    /\ UNCHANGED <<cfgVars, procVars, captured>>
    /\ UNCHANGED <<swapVars, lipVars, ghostVars>>
    /\ UNCHANGED <<g_ret, run_from>>

\* lines 150-153: put_nowait(frame) with the error swallowed
CapturePut ==
    /\ capture_thread = "alive"
    /\ c_pc = "c_put"
    /\ input_queue' = QPutNowait(input_queue, c_frame)
    /\ in_since' = Append(in_since, c_frame)
    /\ c_frame' = NoFrame
    /\ c_pc' = "c_while"
    /\ UNCHANGED <<is_running, cap, capture_thread, process_thread,
                   output_queue, frame_counter, skip_frames, p_pc, p_frame,
                   p_out, last_processed_frame, callback_frame, ctl_pc, call,
                   next_frame, starts, out_since>>
    /\ UNCHANGED <<cfgVars, procVars, captured>>
    /\ puts_after_stop' = IF is_running THEN puts_after_stop ELSE puts_after_stop + 1
    /\ UNCHANGED <<swapVars, lipVars, fpsVars, iterVars, thrVars, c_waited,
                   reads_after_stop, iters_after_stop>>
    /\ UNCHANGED <<g_ret, run_from>>

CaptureStep == CaptureWhile \/ CaptureRead \/ CaptureFull \/ CaptureEvict \/ CapturePut

\* ------------------------------------------------------------ processing worker
\* _process_loop, lines 157-248

\* line 161: while self.is_running; the thread ends when the flag is false
ProcessWhile ==
    /\ process_thread = "alive"
    /\ p_pc = "p_while"
    /\ IF LoopTest(is_running)
       THEN p_pc' = "p_get" /\ UNCHANGED <<process_thread, n_process>>
       ELSE p_pc' = "p_exit" /\ process_thread' = "dead" /\ n_process' = n_process - 1
    /\ UNCHANGED <<is_running, cap, capture_thread, input_queue, output_queue,
                   frame_counter, skip_frames, c_pc, c_frame, p_frame, p_out,
                   last_processed_frame, callback_frame, ctl_pc, call, next_frame,
                   starts, in_since, out_since>>
    /\ UNCHANGED <<cfgVars, procVars, captured>>
    /\ UNCHANGED <<swapVars, lipVars, fpsVars, iterVars, stopVars, n_capture, c_waited>>
    /\ UNCHANGED <<g_ret, run_from>>

\* line 163: input_queue.get(timeout=0.1). An empty queue makes the get time
\* out (queue.Empty, lines 245-246: continue).
GetTimesOutNever(q) == FALSE

GetTimesOut(q) == QEmpty(q)

ProcessGet ==
    /\ process_thread = "alive"
    /\ p_pc = "p_get"
    /\ IF QEmpty(input_queue)
       THEN /\ GetTimesOut(input_queue)
            /\ p_pc' = "p_while"
            /\ UNCHANGED <<input_queue, p_frame, in_since>>
       ELSE /\ p_frame' = QPop(input_queue).item
            /\ input_queue' = QPop(input_queue).rest
            /\ in_since' = <<>>
            /\ p_pc' = "p_proc"
    /\ UNCHANGED <<is_running, cap, capture_thread, process_thread, output_queue,
                   frame_counter, skip_frames, c_pc, c_frame, p_out,
                   last_processed_frame, callback_frame, ctl_pc, call, next_frame,
                   starts, out_since>>
    /\ UNCHANGED <<cfgVars, procVars, captured>>
    /\ UNCHANGED <<swapVars, lipVars, ghostVars>>
    /\ UNCHANGED <<g_ret, run_from>>

\* lines 247-248: "except Exception" sits inside the while loop, so after an
\* exception the loop goes back to its test
ExceptTargetOutsideLoop == "p_exit"

ExceptTarget == "p_while"

\* The processing worker after stage has raised: the iteration is abandoned.
Raised(stage) ==
    /\ env_faults
    /\ p_error' = stage
    /\ p_pc' = ExceptTarget
    /\ process_thread' = IF ExceptTarget = "p_exit" THEN "dead" ELSE process_thread
    /\ p_frame' = NoFrame
    /\ p_out' = NoOutput

\* line 169: if self.frame_counter % self.skip_frames == 0
FullPassBeforeCount(n, k) == (n - 1) % k = 0

FullPass(n, k) == n % k = 0

\* line 196: last_processed_frame if last_processed_frame is not None else frame
SkippedOutputRaw(last, f) == [raw |-> f, full |-> FALSE]

SkippedOutput(last, f) == IF last # NoOutput THEN last ELSE [raw |-> f, full |-> FALSE]

\* lines 164-169 and 194-196: count the frame and read self.skip_frames; a
\* full pass when the counter is a multiple of it, else the last fully
\* processed frame, else the raw frame.
ProcessFrame ==
    /\ process_thread = "alive"
    /\ p_pc = "p_proc"
    /\ frame_counter' = frame_counter + 1
    /\ p_skip' = skip_frames
    /\ IF FullPass(frame_counter + 1, skip_frames)
       THEN /\ p_pc' = "p_scale_w"
            /\ UNCHANGED p_out
       ELSE /\ p_out' = SkippedOutput(last_processed_frame, p_frame)
            /\ p_pc' = "p_overlay"
    /\ p_sw' = 0
    /\ p_sh' = 0
    /\ p_error' = "none"
    /\ UNCHANGED <<is_running, cap, capture_thread, process_thread, input_queue,
                   output_queue, skip_frames, c_pc, c_frame, p_frame,
                   last_processed_frame, callback_frame, ctl_pc, call, next_frame,
                   starts, in_since, out_since>>
    /\ UNCHANGED <<cfgVars, prev_out, last_full, full_passes, captured>>
    /\ cb_calls' = 0
    /\ pushes' = 0
    /\ iters_after_stop' = IF is_running THEN iters_after_stop ELSE iters_after_stop + 1
    /\ UNCHANGED <<swapVars, lipVars, fpsVars, thrVars, c_waited, reads_after_stop,
                   puts_after_stop>>
    /\ UNCHANGED <<g_ret, run_from>>

\* line 174: int(width * self.resolution_scale)
ProcessScaleW ==
    /\ process_thread = "alive"
    /\ p_pc = "p_scale_w"
    /\ p_sw' = resolution_scale
    /\ p_pc' = "p_scale_h"
    /\ UNCHANGED <<is_running, cap, capture_thread, process_thread, input_queue,
                   output_queue, frame_counter, skip_frames, c_pc, c_frame, p_frame,
                   p_out, last_processed_frame, callback_frame, ctl_pc, call,
                   next_frame, starts, in_since, out_since>>
    /\ UNCHANGED <<cfgVars, p_skip, p_sh, p_error, prev_out, last_full, full_passes, captured>>
    /\ UNCHANGED <<swapVars, lipVars, ghostVars>>
    /\ UNCHANGED <<g_ret, run_from>>

\* line 185: if self.enable_lip_sync and self.lip_sync and self.lip_sync.enabled
LipGuardFlagOnly(flag, engine, en) == flag /\ engine = "engine"

LipGuard(flag, engine, en) == flag /\ engine = "engine" /\ en

\* lines 186-189: what self.lip_sync.process_frame does to the swapped frame
LipStage(en, sface, tface, clone_ok) ==
    IF Disabled(en)
    THEN "target"
    ELSE TransferMouth(GetMouthLandmarks(en, sface), GetMouthLandmarks(en, tface), clone_ok).kind

\* over what the detector finds in the two frames and whether seamlessClone works
LipStageOutcomes(en) ==
    {LipStage(en, sface, tface, clone_ok) :
         sface \in Landmarks, tface \in Landmarks, clone_ok \in BOOLEAN}

\* lines 175-193: int(height * self.resolution_scale), then the pass: resize,
\* swap stage, resize back, lip sync. It yields a new frame, which becomes
\* last_processed_frame, or one of its stages raises.
ProcessPass ==
    /\ process_thread = "alive"
    /\ p_pc = "p_scale_h"
    /\ p_sh' = resolution_scale
    /\ \/ /\ p_out' = [raw |-> p_frame, full |-> TRUE]
          /\ last_processed_frame' = [raw |-> p_frame, full |-> TRUE]
          /\ last_full' = [c |-> frame_counter, out |-> [raw |-> p_frame, full |-> TRUE]]
          /\ full_passes' = full_passes + 1
          /\ p_pc' = "p_overlay"
          /\ IF LipGuard(enable_lip_sync, lip_sync, l_enabled)
             THEN \E k \in LipStageOutcomes(l_enabled) : p_lip' = k
             ELSE p_lip' = "skipped"
          /\ UNCHANGED <<process_thread, p_frame, p_error>>
       \/ /\ Raised("pass")
          /\ p_lip' = "none"
          /\ UNCHANGED <<last_processed_frame, last_full, full_passes>>
    /\ UNCHANGED <<is_running, cap, capture_thread, input_queue,
                   output_queue, frame_counter, skip_frames, c_pc, c_frame,
                   callback_frame, ctl_pc, call,
                   next_frame, starts, in_since, out_since>>
    /\ UNCHANGED <<cfgVars, p_skip, p_sw, prev_out, captured>>
    /\ UNCHANGED <<swapVars, l_enabled, l_ret, l_model, lip_sync, enable_lip_sync, ghostVars>>
    /\ UNCHANGED <<g_ret, run_from>>

\* lines 199-204: self.frame_count += 1, then back to 0 when more than one
\* second has passed since self.start_time
FpsCountNoReset(n, closed) == n + 1

FpsCount(n, closed) == IF closed THEN 0 ELSE n + 1

\* lines 198-227: the frame-rate text and the mode text are drawn on
\* processed_frame, or cv2.putText raises
ProcessOverlay ==
    /\ process_thread = "alive"
    /\ p_pc = "p_overlay"
    /\ \E closed \in {c \in BOOLEAN : clock = "each_frame" => c} :
         /\ frame_count' = FpsCount(frame_count, closed)
         /\ fps_window' = IF closed THEN "closed" ELSE "open"
    /\ p_lip' = "none"
    /\ \/ /\ p_pc' = "p_cb"
          /\ UNCHANGED <<process_thread, p_frame, p_out, p_error>>
       \/ Raised("overlay")
    /\ UNCHANGED <<is_running, cap, capture_thread, input_queue,
                   output_queue, frame_counter, skip_frames, c_pc, c_frame,
                   last_processed_frame, callback_frame, ctl_pc, call,
                   next_frame, starts, in_since, out_since>>
    /\ UNCHANGED <<cfgVars, p_skip, p_sw, p_sh, prev_out, last_full, full_passes, captured>>
    /\ UNCHANGED <<swapVars, l_enabled, l_ret, l_model, lip_sync, enable_lip_sync>>
    /\ UNCHANGED <<iterVars, stopVars, thrVars, c_waited>>
    /\ UNCHANGED <<g_ret, run_from>>

\* line 230: if self.frame_callback
CallbackRegisteredNever(cb) == FALSE

CallbackRegistered(cb) == cb # "None"

\* lines 229-231: self.frame_callback(processed_frame), which returns or raises
ProcessCallback ==
    /\ process_thread = "alive"
    /\ p_pc = "p_cb"
    /\ IF CallbackRegistered(frame_callback)
       THEN /\ callback_frame' = p_out
            /\ cb_calls' = cb_calls + 1
            /\ \/ /\ p_pc' = "p_full"
                  /\ UNCHANGED <<process_thread, p_frame, p_out, p_error>>
               \/ Raised("callback")
       ELSE /\ p_pc' = "p_full"
            /\ UNCHANGED <<callback_frame, cb_calls, process_thread, p_frame, p_out, p_error>>
    /\ UNCHANGED <<is_running, cap, capture_thread, input_queue,
                   output_queue, frame_counter, skip_frames, c_pc, c_frame,
                   last_processed_frame, ctl_pc, call, next_frame,
                   starts, in_since, out_since>>
    /\ UNCHANGED <<cfgVars, p_skip, p_sw, p_sh, prev_out, last_full, full_passes, captured>>
    /\ UNCHANGED <<swapVars, lipVars, fpsVars, stopVars, thrVars, c_waited, pushes>>
    /\ UNCHANGED <<g_ret, run_from>>

\* line 234: if self.output_queue.full()
ProcessFull ==
    /\ process_thread = "alive"
    /\ p_pc = "p_full"
    /\ p_pc' = IF QFull(output_queue) THEN "p_evict" ELSE "p_put"
    /\ UNCHANGED <<is_running, cap, capture_thread, process_thread, input_queue,
                   output_queue, frame_counter, skip_frames, c_pc, c_frame, p_frame,
                   p_out, last_processed_frame, callback_frame, ctl_pc, call,
                   next_frame, starts, in_since, out_since>>
    /\ UNCHANGED <<cfgVars, procVars, captured>>
    /\ UNCHANGED <<swapVars, lipVars, ghostVars>>
    /\ UNCHANGED <<g_ret, run_from>>

\* lines 235-238
ProcessEvict ==
    /\ process_thread = "alive"
    /\ p_pc = "p_evict"
    /\ output_queue' = Evict(output_queue)
    /\ p_pc' = "p_put"
    /\ UNCHANGED <<is_running, cap, capture_thread, process_thread, input_queue,
                   frame_counter, skip_frames, c_pc, c_frame, p_frame,
                   p_out, last_processed_frame, callback_frame, ctl_pc, call,
                   next_frame, starts, in_since, out_since>>
    /\ UNCHANGED <<cfgVars, procVars, captured>>
    /\ UNCHANGED <<swapVars, lipVars, ghostVars>>
    /\ UNCHANGED <<g_ret, run_from>>

\* lines 240-243
ProcessPut ==
    /\ process_thread = "alive"
    /\ p_pc = "p_put"
    /\ output_queue' = QPutNowait(output_queue, p_out)
    /\ out_since' = Append(out_since, p_out)
    /\ p_frame' = NoFrame
    /\ p_out' = NoOutput
    /\ prev_out' = p_out
    /\ p_pc' = "p_while"
    /\ UNCHANGED <<is_running, cap, capture_thread, process_thread, input_queue,
                   frame_counter, skip_frames, c_pc, c_frame,
                   last_processed_frame, callback_frame, ctl_pc, call,
                   next_frame, starts, in_since>>
    /\ UNCHANGED <<cfgVars, p_skip, p_sw, p_sh, p_error, last_full, full_passes, captured>>
    /\ pushes' = pushes + 1
    /\ UNCHANGED <<swapVars, lipVars, fpsVars, stopVars, thrVars, c_waited, cb_calls>>
    /\ UNCHANGED <<g_ret, run_from>>

ProcessStep ==
    \/ ProcessWhile \/ ProcessGet \/ ProcessFrame \/ ProcessScaleW \/ ProcessPass
    \/ ProcessOverlay \/ ProcessCallback
    \/ ProcessFull \/ ProcessEvict \/ ProcessPut

\* ------------------------------------------------------------ specification
StartOk == Start(TRUE)

StartFail == Start(FALSE)

Next ==
    \/ StartOk \/ StartFail \/ StopBegin
    \/ StopJoinCapture \/ StopJoinProcess \/ StopReleaseCap
    \/ StopDrainInCheck \/ StopDrainInGet \/ StopDrainOutCheck \/ StopDrainOutGet
    \/ GetFrame
    \/ CaptureWhile \/ CaptureRead \/ CaptureFull \/ CaptureEvict \/ CapturePut
    \/ ProcessWhile \/ ProcessGet \/ ProcessFrame \/ ProcessScaleW \/ ProcessPass
    \/ ProcessOverlay \/ ProcessCallback
    \/ ProcessFull \/ ProcessEvict \/ ProcessPut

Spec == Init /\ [][Next]_vars

\* The scheduler runs each live thread: the two workers and the client
\* thread inside stop().
\* the camera delivers one frame more than a channel holds
LiveInit ==
    /\ PipeInit /\ SwapInit /\ swapper_loaded = TRUE
    /\ LipInit /\ l_enabled = TRUE /\ lip_sync = "engine"
    /\ frame_callback = "registered"
    /\ clock = "each_frame"
    /\ camera_frames = QueueMax + 1
    /\ env_faults = TRUE

LiveSpec ==
    /\ LiveInit /\ [][Next]_vars
    /\ WF_vars(CaptureStep) /\ WF_vars(ProcessStep) /\ WF_vars(StopStep)

\* get_frame(), lines 250-255, called from a second client thread (a display
\* timer, say) at any moment, also while the first client is inside stop()
GetFrameOther ==
    /\ g_ret' = [op |-> "get_frame", ret |-> GetFrameResult(output_queue),
                 ok |-> ~QEmpty(output_queue)]
    /\ output_queue' = QGetNowait(output_queue)
    /\ out_since' = IF QEmpty(output_queue) THEN out_since ELSE <<>>
    /\ UNCHANGED <<is_running, cap, capture_thread, process_thread, input_queue,
                   frame_counter, skip_frames, c_pc, c_frame, p_pc,
                   p_frame, p_out, last_processed_frame, callback_frame, ctl_pc,
                   call, next_frame, starts, in_since>>
    /\ UNCHANGED <<cfgVars, procVars, captured>>
    /\ UNCHANGED <<swapVars, lipVars, ghostVars, run_from>>

\* One client starts and stops the pipeline while a second one polls
\* get_frame; the scheduler runs the workers and the client inside stop().
DrainInit ==
    /\ PipeInit /\ SwapInit /\ swapper_loaded = TRUE
    /\ LipInit /\ l_enabled = TRUE /\ lip_sync = "engine"
    /\ frame_callback = "registered"
    /\ clock = "each_frame"
    /\ camera_frames = QueueMax + 1
    /\ env_faults = FALSE

DrainNext ==
    \/ StartOk \/ StopBegin
    \/ StopJoinCapture \/ StopJoinProcess \/ StopReleaseCap
    \/ StopDrainInCheck \/ StopDrainInGet \/ StopDrainOutCheck \/ StopDrainOutGet
    \/ GetFrameOther
    \/ CaptureWhile \/ CaptureRead \/ CaptureFull \/ CaptureEvict \/ CapturePut
    \/ ProcessWhile \/ ProcessGet \/ ProcessFrame \/ ProcessScaleW \/ ProcessPass
    \/ ProcessOverlay \/ ProcessCallback
    \/ ProcessFull \/ ProcessEvict \/ ProcessPut

DrainSpec ==
    /\ DrainInit /\ [][DrainNext]_vars
    /\ WF_vars(CaptureStep) /\ WF_vars(ProcessStep) /\ WF_vars(StopStep)


\* ------------------------------------------------------------ client: set_performance_mode()
Modes == {"fast", "balanced", "quality"}

\* lines 268-276: the value written to self.skip_frames
ModeSkipNoQuality(mode) == IF mode = "fast" THEN 3 ELSE 2

ModeSkip(mode) == IF mode = "fast" THEN 3 ELSE IF mode = "balanced" THEN 2 ELSE 1

\* lines 268-276: the value written to self.resolution_scale, in tenths
ModeScale(mode) == IF mode = "fast" THEN 4 ELSE IF mode = "balanced" THEN 5 ELSE 8

\* lines 269, 272, 275: the first of the two writes, self.skip_frames = ...
SetModeBegin ==
    /\ ctl_pc = "idle"
    /\ mode_calls < MaxModeCalls
    /\ mode_calls' = mode_calls + 1
    /\ \E mode \in Modes :
         /\ mode_arg' = mode
         /\ skip_frames' = ModeSkip(mode)
    /\ ctl_pc' = "set_scale"
    /\ call' = [op |-> "set_performance_mode", ret |-> NoOutput, ok |-> TRUE, pre |-> is_running]
    /\ UNCHANGED <<is_running, cap, capture_thread, process_thread, input_queue,
                   output_queue, frame_counter, c_pc, c_frame, p_pc, p_frame, p_out,
                   last_processed_frame, callback_frame, next_frame, starts,
                   in_since, out_since>>
    /\ UNCHANGED <<resolution_scale, camera_frames, env_faults, frame_callback, clock,
                   procVars, captured>>
    /\ UNCHANGED <<swapVars, lipVars, ghostVars>>
    /\ UNCHANGED <<g_ret, run_from>>

\* lines 270, 273, 276: the second write, self.resolution_scale = ...
SetModeScale ==
    /\ ctl_pc = "set_scale"
    /\ resolution_scale' = ModeScale(mode_arg)
    /\ ctl_pc' = "idle"
    /\ UNCHANGED <<is_running, cap, capture_thread, process_thread, input_queue,
                   output_queue, frame_counter, skip_frames, c_pc, c_frame, p_pc,
                   p_frame, p_out, last_processed_frame, callback_frame, call,
                   next_frame, starts, in_since, out_since>>
    /\ UNCHANGED <<mode_arg, mode_calls, camera_frames, env_faults, frame_callback,
                   clock, procVars, captured>>
    /\ UNCHANGED <<swapVars, lipVars, ghostVars>>
    /\ UNCHANGED <<g_ret, run_from>>

\* A run during which the client switches the profile: the two writes of
\* set_performance_mode interleave with the workers.
ProfileInit ==
    /\ PipeInit /\ SwapInit /\ swapper_loaded = TRUE
    /\ LipInit /\ l_enabled = TRUE /\ lip_sync = "engine"
    /\ frame_callback = "registered"
    /\ clock = "each_frame"
    /\ camera_frames = MaxProfileFrames
    /\ env_faults = FALSE

ProfileNext ==
    \/ StartOk \/ SetModeBegin \/ SetModeScale
    \/ CaptureWhile \/ CaptureRead \/ CaptureFull \/ CaptureEvict \/ CapturePut
    \/ ProcessWhile \/ ProcessGet \/ ProcessFrame \/ ProcessScaleW \/ ProcessPass
    \/ ProcessOverlay \/ ProcessCallback
    \/ ProcessFull \/ ProcessEvict \/ ProcessPut

ProfileSpec == ProfileInit /\ [][ProfileNext]_vars

\* A run of a freshly constructed pipeline whose profile is chosen before
\* start() and left alone afterwards, with no stage raising, without the
\* lip_sync module, each frame taking more than a second.
SetModeBeforeStart == starts = 0 /\ SetModeBegin

SkipInit ==
    /\ PipeInit /\ SwapInit /\ swapper_loaded = TRUE
    /\ LipInit /\ l_enabled = FALSE /\ lip_sync = "None"
    /\ frame_callback = "registered"
    /\ clock = "each_frame"
    /\ camera_frames = MaxSkipFrames
    /\ env_faults = FALSE

SkipNext ==
    \/ StartOk \/ SetModeBeforeStart \/ SetModeScale
    \/ CaptureWhile \/ CaptureRead \/ CaptureFull \/ CaptureEvict \/ CapturePut
    \/ ProcessWhile \/ ProcessGet \/ ProcessFrame \/ ProcessScaleW \/ ProcessPass
    \/ ProcessOverlay \/ ProcessCallback
    \/ ProcessFull \/ ProcessEvict \/ ProcessPut

SkipSpec == SkipInit /\ [][SkipNext]_vars

\* ------------------------------------------------------------ client: toggle_lip_sync()
\* lines 278-283; LIP_SYNC_AVAILABLE is what made self.lip_sync an engine
ToggleLipSync ==
    /\ ctl_pc = "idle"
    /\ IF lip_sync = "engine"
       THEN /\ enable_lip_sync' = ~enable_lip_sync
            /\ call' = [op |-> "toggle_lip_sync", ret |-> NoOutput,
                        ok |-> ~enable_lip_sync, pre |-> is_running]
       ELSE /\ call' = [op |-> "toggle_lip_sync", ret |-> NoOutput,
                        ok |-> FALSE, pre |-> is_running]
            /\ UNCHANGED enable_lip_sync
    /\ UNCHANGED <<is_running, cap, capture_thread, process_thread, input_queue,
                   output_queue, frame_counter, skip_frames, c_pc, c_frame, p_pc,
                   p_frame, p_out, last_processed_frame, callback_frame, ctl_pc,
                   next_frame, starts, in_since, out_since>>
    /\ UNCHANGED <<cfgVars, procVars, captured>>
    /\ UNCHANGED <<swapVars, l_enabled, l_ret, l_model, lip_sync, p_lip, ghostVars>>
    /\ UNCHANGED <<g_ret, run_from>>

\* A run during which the client toggles lip sync, for every outcome of the
\* import of the lip_sync module and of the load of the landmark model.
LipToggleInit ==
    /\ PipeInit /\ SwapInit /\ swapper_loaded = TRUE
    /\ LipInit /\ (lip_sync = "None" => ~l_model)
    /\ frame_callback = "registered"
    /\ clock = "each_frame"
    /\ camera_frames = MaxLipFrames
    /\ env_faults = FALSE

LipToggleNext ==
    \/ StartOk \/ ToggleLipSync
    \/ CaptureWhile \/ CaptureRead \/ CaptureFull \/ CaptureEvict \/ CapturePut
    \/ ProcessWhile \/ ProcessGet \/ ProcessFrame \/ ProcessScaleW \/ ProcessPass
    \/ ProcessOverlay \/ ProcessCallback
    \/ ProcessFull \/ ProcessEvict \/ ProcessPut

LipToggleSpec == LipToggleInit /\ [][LipToggleNext]_vars

\* A run in which time passes freely against the frame-rate window, with
\* or without a frame-ready callback registered.
FpsInit ==
    /\ PipeInit /\ SwapInit /\ swapper_loaded = TRUE
    /\ LipInit /\ l_enabled = FALSE /\ lip_sync = "None"
    /\ frame_callback \in {"None", "registered"}
    /\ clock = "free"
    /\ camera_frames = MaxFpsFrames
    /\ env_faults = TRUE

FpsNext ==
    \/ StartOk
    \/ CaptureWhile \/ CaptureRead \/ CaptureFull \/ CaptureEvict \/ CapturePut
    \/ ProcessWhile \/ ProcessGet \/ ProcessFrame \/ ProcessScaleW \/ ProcessPass
    \/ ProcessOverlay \/ ProcessCallback
    \/ ProcessFull \/ ProcessEvict \/ ProcessPut

FpsSpec == FpsInit /\ [][FpsNext]_vars

\* ------------------------------------------------------------ FaceSwapper
Refs == 1..MaxRefs

\* What a still image handed to set_source_face turns out to be.
SourceInputs ==
    {[kind |-> k, face |-> 0] : k \in {"unreadable", "raises", "noface"}}
    \cup {[kind |-> "face", face |-> r] : r \in Refs}

\* set_source_face, lines 99-121: what the call leaves in self.source_face.
\* input: an unreadable image (cv2.imread gives None), an image on which
\* detection raises, an image without a face, or the reference face detected.
NewSourceCleared(input, old) == IF input.kind = "face" THEN input.face ELSE 0

NewSource(input, old) == IF input.kind = "face" THEN input.face ELSE old

\* CameraProcessor.set_source_image -> FaceSwapper.set_source_face, on the client thread
SetSourceFace ==
    /\ \E input \in SourceInputs :
         /\ source_face' = NewSource(input, source_face)
         /\ set_ret' = [input |-> input.kind, ret |-> (input.kind = "face"), before |-> source_face]
    /\ UNCHANGED <<swapper_loaded, s_pc, s_faces, s_used, s_result,
                   s_had_source, s_detected, s_fail, bufVars>>
    /\ UNCHANGED <<pipeVars, cfgVars, procVars, captured, lipVars, ghostVars>>
    /\ UNCHANGED <<g_ret, run_from>>

\* line 133: if self.source_face is None
NoSourceNever(sf) == FALSE

NoSource(sf) == sf = 0

\* process_frame, lines 133-135: no source face, the frame is returned as it is;
\* otherwise a new pass begins
SwapCheckSource ==
    /\ s_pc = "s_idle"
    /\ s_used' = <<>>
    /\ s_faces' = <<>>
    /\ s_detected' = FALSE
    /\ s_fail' = "none"
    /\ s_had_source' = (source_face # 0)
    /\ IF NoSource(source_face)
       THEN s_result' = "unchanged" /\ s_pc' = "s_idle"
       ELSE s_result' = "none" /\ s_pc' = "s_model"
    /\ s_buf' = <<>> /\ s_in' = <<>> /\ s_found' = 0 /\ s_frame' = "intact"
    /\ UNCHANGED <<source_face, swapper_loaded, set_ret>>
    /\ UNCHANGED <<pipeVars, cfgVars, procVars, captured, lipVars, ghostVars>>
    /\ UNCHANGED <<g_ret, run_from>>

\* lines 137-148: model not loaded, the frame is returned with a warning drawn on it
SwapCheckModel ==
    /\ s_pc = "s_model"
    /\ IF ~swapper_loaded
       THEN s_result' = "overlay_model" /\ s_pc' = "s_idle" /\ s_frame' = "drawn"
       ELSE s_result' = "none" /\ s_pc' = "s_detect" /\ UNCHANGED s_frame
    /\ UNCHANGED <<s_buf, s_in, s_found>>
    /\ UNCHANGED <<source_face, swapper_loaded, s_faces, s_used, set_ret,
                   s_had_source, s_detected, s_fail>>
    /\ UNCHANGED <<pipeVars, cfgVars, procVars, captured, lipVars, ghostVars>>
    /\ UNCHANGED <<g_ret, run_from>>

\* lines 170-182: "except Exception" draws the error on the frame and returns it
OnSwapErrorReraise == "raised"

OnSwapError == "overlay_error"

\* lines 150-158: face_app.get(frame) raises, finds no face (frame returned
\* as it is), or finds k faces
SwapDetect ==
    /\ s_pc = "s_detect"
    /\ s_detected' = TRUE
    /\ \/ /\ s_result' = OnSwapError /\ s_pc' = "s_idle"
          /\ s_fail' = "detect"
          /\ s_frame' = "drawn"
          /\ UNCHANGED <<s_faces, s_found>>
       \/ /\ \E k \in 0..MaxFaces :
               /\ s_found' = k
               /\ IF k = 0
                  THEN s_result' = "unchanged" /\ s_pc' = "s_idle" /\ UNCHANGED s_faces
                  ELSE s_result' = "none" /\ s_pc' = "s_loop" /\ s_faces' = [i \in 1..k |-> i]
          /\ UNCHANGED <<s_fail, s_frame>>
    /\ UNCHANGED <<s_buf, s_in>>
    /\ UNCHANGED <<source_face, swapper_loaded, s_used, set_ret, s_had_source>>
    /\ UNCHANGED <<pipeVars, cfgVars, procVars, captured, lipVars, ghostVars>>
    /\ UNCHANGED <<g_ret, run_from>>

\* lines 163-168: face_swapper.get(result, target_face, source, paste_back=True)
\* returns a new image, the one it was given with the face composited onto it
SwapperGetOntoCopy(result, target_face, source) ==
    <<[face |-> target_face, ref |-> source]>>

SwapperGet(result, target_face, source) ==
    Append(result, [face |-> target_face, ref |-> source])

\* lines 159-168: one iteration of the loop over target_faces (result starts
\* as frame.copy(), the empty composition); the swap model is given result and
\* self.source_face as read in this iteration, and returns or raises
SwapFace ==
    /\ s_pc = "s_loop"
    /\ \/ /\ s_result' = OnSwapError /\ s_pc' = "s_idle"
          /\ s_fail' = "swap"
          /\ s_frame' = "drawn"
          /\ UNCHANGED <<s_faces, s_used, s_buf, s_in, s_found>>
       \/ /\ s_used' = Append(s_used, [face |-> Head(s_faces), ref |-> source_face])
          /\ s_in' = Append(s_in, s_buf)
          /\ s_buf' = SwapperGet(s_buf, Head(s_faces), source_face)
          /\ UNCHANGED <<s_found, s_frame>>
          /\ s_faces' = Tail(s_faces)
          /\ IF Len(s_faces) = 1
             THEN s_result' = "swapped" /\ s_pc' = "s_idle"
             ELSE s_result' = "none" /\ s_pc' = "s_loop"
          /\ UNCHANGED s_fail
    /\ UNCHANGED <<source_face, swapper_loaded, set_ret, s_had_source, s_detected>>
    /\ UNCHANGED <<pipeVars, cfgVars, procVars, captured, lipVars, ghostVars>>
    /\ UNCHANGED <<g_ret, run_from>>

SwapNext == SetSourceFace \/ SwapCheckSource \/ SwapCheckModel \/ SwapDetect \/ SwapFace

\* The swap stage on the processing thread, with set_source_face calls from
\* the client thread interleaved at every shared access.
SwapSpecInit ==
    /\ PipeInit /\ SwapInit
    /\ LipInit /\ l_enabled = TRUE /\ lip_sync = "engine"
    /\ frame_callback = "registered"
    /\ clock = "each_frame"
    /\ camera_frames = MaxFrames
    /\ env_faults = TRUE

SwapSpec == SwapSpecInit /\ [][SwapNext]_vars

\* The lip-sync engine on its own, constructed with or without its
\* landmark model, called on pairs of frames.
LipSpecInit ==
    /\ PipeInit /\ SwapInit /\ swapper_loaded = TRUE
    /\ LipInit /\ lip_sync = "engine"
    /\ frame_callback = "registered"
    /\ clock = "each_frame"
    /\ camera_frames = MaxFrames
    /\ env_faults = TRUE

LipSpec == LipSpecInit /\ [][LipProcessFrame]_vars

\* ============================================================ properties

\* C1: after N >= 2 pushes into a channel by its producer with no pop by the
\* consumer in between, the channel holds exactly the last 2 frames pushed,
\* oldest first, and a producer inside a push always has a step to take
\* (no push blocks).
ChannelHoldsLastTwo ==
    /\ (Len(in_since) >= 2 /\ c_pc # "c_put") => input_queue = LastTwo(in_since)
    /\ (Len(out_since) >= 2 /\ p_pc # "p_put") => output_queue = LastTwo(out_since)
    /\ (capture_thread = "alive" /\ c_pc \in {"c_full", "c_evict", "c_put"})
          => ENABLED CaptureStep
    /\ (process_thread = "alive" /\ p_pc \in {"p_full", "p_evict", "p_put"})
          => ENABLED ProcessStep

\* Three frames were pushed into the raw channel with no pop in between: the
\* oldest was evicted and the last two remain.
ChannelEvictedOldest ==
    /\ Len(in_since) = 3
    /\ c_pc = "c_while"
    /\ input_queue = <<in_since[2], in_since[3]>>

\* C2: once stop() has returned, the running flag is false, both workers have
\* terminated, the device handle is cleared and both channels are empty.
StopPostcondition ==
    (call.op = "stop" /\ ctl_pc = "idle") =>
        /\ ~is_running
        /\ capture_thread # "alive"
        /\ process_thread # "alive"
        /\ cap = "None"
        /\ input_queue = <<>>
        /\ output_queue = <<>>

\* stop() has returned from a pipeline that was running and had processed frames.
StoppedAfterRunning ==
    /\ call.op = "stop" /\ ctl_pc = "idle" /\ call.pre
    /\ frame_counter >= 2

\* C3: under fair scheduling of the workers and of the client inside stop(),
\* every stop() in progress returns.
StopReturns == (ctl_pc # "idle") ~> (ctl_pc = "idle")

\* stop() waits in its join while the processing loop sits in the timed
\* read of an empty raw channel.
StopWaitsOnEmptyRead ==
    /\ ctl_pc \in {"join_capture", "join_process"}
    /\ process_thread = "alive"
    /\ p_pc = "p_get"
    /\ input_queue = <<>>

\* C4: a start() step taken while the pipeline is running reports success and
\* leaves the device, the workers, the channels and the counters as they were.
StartWhileRunningChangesNothing ==
    [][\A ok \in BOOLEAN :
          (is_running /\ Start(ok)) =>
              /\ call'.op = "start" /\ call'.ok
              /\ UNCHANGED <<is_running, cap, capture_thread, process_thread,
                             input_queue, output_queue, frame_counter, skip_frames,
                             c_pc, c_frame, p_pc, p_frame, p_out,
                             last_processed_frame, callback_frame, next_frame,
                             starts, in_since, out_since>>]_vars

\* start() has returned success on a running pipeline whose workers are mid-frame.
StartedWhileRunning ==
    /\ call.op = "start" /\ call.pre /\ call.ok
    /\ is_running
    /\ p_pc = "p_proc"

\* C5: a start() step whose device does not open reports failure, leaves the
\* running flag false and launches no worker; and while that failed start is
\* the last call, the pipeline is stopped, no worker is alive and both
\* channels are empty.
StartFailureStaysStopped ==
    /\ [][(~is_running /\ Start(FALSE)) =>
              /\ call'.op = "start" /\ ~call'.ok
              /\ ~is_running'
              /\ UNCHANGED <<capture_thread, process_thread, c_pc, p_pc,
                             input_queue, output_queue, in_since, out_since>>]_vars
    /\ []((call.op = "start" /\ ~call.ok) =>
              /\ ~is_running
              /\ capture_thread # "alive"
              /\ process_thread # "alive"
              /\ input_queue = <<>>
              /\ output_queue = <<>>)

\* start() has failed to open the device.
StartHasFailed == call.op = "start" /\ ~call.ok /\ cap = "closed"

\* C6: a stop() called when the pipeline is not running always has a next
\* step until it returns (no join or drain blocks or fails), and returns with
\* the pipeline stopped, no device held and both channels empty.
StopWhenNotRunning ==
    (call.op = "stop" /\ ~call.pre) =>
        /\ ctl_pc # "idle" => ENABLED StopStep
        /\ ctl_pc = "idle" =>
              /\ ~is_running
              /\ cap = "None"
              /\ capture_thread # "alive"
              /\ process_thread # "alive"
              /\ input_queue = <<>>
              /\ output_queue = <<>>

\* stop() was called on a pipeline never started and has passed the join of
\* the capture thread that does not exist.
StopOnNeverStarted ==
    /\ call.op = "stop" /\ ~call.pre
    /\ starts = 0
    /\ capture_thread = "None"
    /\ ctl_pc = "idle"

\* C7: once a stop() of a running pipeline has returned the device is
\* released, and a start() step whose device opens, taken when the pipeline is
\* not running, finds no worker alive and leaves the pipeline running with the
\* device open and one capture worker and one processing worker alive, each
\* at the top of its loop with fresh locals.
RestartSucceeds ==
    /\ []((call.op = "stop" /\ call.pre /\ ctl_pc = "idle") => cap = "None")
    /\ [][(~is_running /\ Start(TRUE)) =>
              /\ capture_thread # "alive" /\ process_thread # "alive"
              /\ cap # "opened"
              /\ call'.op = "start" /\ call'.ok
              /\ is_running'
              /\ cap' = "opened"
              /\ capture_thread' = "alive" /\ c_pc' = "c_while" /\ c_frame' = NoFrame
              /\ process_thread' = "alive" /\ p_pc' = "p_while"
              /\ last_processed_frame' = NoOutput]_vars

\* The pipeline runs again after a start, a stop and a second start.
Restarted ==
    /\ starts = 2
    /\ call.op = "start" /\ call.ok /\ ~call.pre
    /\ is_running
    /\ capture_thread = "alive" /\ process_thread = "alive"

\* C8: every get_frame step returns 'none' when the output channel is empty
\* and otherwise the most recent output frame the processing loop produced.
GetFrameReturnsMostRecent ==
    [][GetFrame =>
          call'.ret = IF QEmpty(output_queue)
                      THEN NoOutput
                      ELSE output_queue[Len(output_queue)]]_vars

\* C9: when the last set_source_face call was given an unreadable image, an
\* image on which detection raises or an image without a face, it returned
\* failure and the source reference is what it was before the call.
FailedSetSourceKeepsReference ==
    /\ set_ret.input \in {"unreadable", "raises", "noface"} => ~set_ret.ret
    /\ ~set_ret.ret => source_face = set_ret.before

\* A set_source_face call has failed while a reference was already active.
FailedSetSourceWithReference ==
    /\ set_ret.input = "noface"
    /\ ~set_ret.ret
    /\ set_ret.before # 0

\* C10: all faces swapped in one pass of process_frame were swapped with the
\* same source reference.
OneReferencePerFrame ==
    \A i, j \in 1..Len(s_used) : s_used[i].ref = s_used[j].ref

\* The processing worker is past line 196 of the current iteration: p_out is
\* the output of the frame counted last.
OutputDecided == p_pc \in {"p_overlay", "p_cb", "p_full", "p_evict", "p_put"}

FrameUsesOneProfile ==
    p_sh # 0 =>
        /\ <<p_skip, p_sw>> \in {<<3, 4>>, <<2, 5>>, <<1, 8>>}
        /\ p_sw = p_sh

\* C13: the skip interval the processing loop used for a frame is the one
\* that was set when the capture worker read that frame from the camera.
ProfileNotRetroactive ==
    (p_frame # NoFrame /\ (OutputDecided \/ p_pc \in {"p_scale_w", "p_scale_h"})) =>
        p_skip = captured[p_frame]

FrameFailureKeepsLoop ==
    /\ []((p_error # "none" /\ is_running) =>
              /\ process_thread = "alive"
              /\ p_pc \in {"p_while", "p_get", "p_proc"})
    /\ [][(p_error # "none" /\ ProcessGet /\ input_queue # <<>>) =>
              (p_frame' = Head(input_queue) /\ p_pc' = "p_proc")]_vars
    /\ [][(process_thread = "alive" /\ process_thread' = "dead") =>
              (p_pc = "p_while" /\ ~is_running)]_vars

\* The frame-ready callback raised for one frame and the loop has popped the
\* next one.
NextFramePoppedAfterFailure ==
    /\ p_error = "callback"
    /\ is_running
    /\ process_thread = "alive"
    /\ p_pc = "p_proc"
    /\ p_frame # NoFrame

\* C17 as stated: a pass of the swap stage never raises, returns the frame
\* with the model warning whenever the swap model is not loaded, and returns
\* the frame with the error text whenever detection or inference raised.
SwapStageAlwaysOverlays ==
    (s_pc = "s_idle" /\ s_result # "none") =>
        /\ s_result # "raised"
        /\ ~swapper_loaded => s_result = "overlay_model"
        /\ s_fail # "none" => s_result = "overlay_error"

\* C17 amended: a pass of the swap stage always returns a frame; it returns
\* the frame with the model warning when a source reference is set and the
\* swap model is not loaded, and the frame with the error text when
\* detection or inference raised.
SwapStageNeverRaises ==
    (s_pc = "s_idle" /\ s_result # "none") =>
        /\ s_result \in {"unchanged", "overlay_model", "overlay_error", "swapped"}
        /\ (s_had_source /\ ~swapper_loaded) => s_result = "overlay_model"
        /\ s_fail # "none" => s_result = "overlay_error"

\* Inference raised on the second face of a frame and the pass returned the
\* frame with the error text.
SwapFailedOnSecondFace ==
    /\ s_pc = "s_idle"
    /\ s_fail = "swap"
    /\ Len(s_used) = 1
    /\ s_result = "overlay_error"

\* C18: a pass of the swap stage that found no source reference returned the
\* frame unchanged, without running detection and without swapping a face,
\* whether or not the swap model is loaded.
NoSourceReturnsInput ==
    (s_pc = "s_idle" /\ s_result # "none" /\ ~s_had_source) =>
        /\ s_result = "unchanged"
        /\ ~s_detected
        /\ s_used = <<>>

\* A pass ran with no source reference and no swap model loaded.
PassWithoutSourceOrModel ==
    /\ s_pc = "s_idle"
    /\ s_result = "unchanged"
    /\ ~s_had_source
    /\ ~swapper_loaded

\* C19: a process_frame call on an engine whose enabled flag is false
\* returned the swapped frame it was given, ran no landmark detection and
\* did not call transfer_mouth.
DisabledLipSyncIsIdentity ==
    (l_ret.kind # "none" /\ ~l_enabled) =>
        /\ l_ret.kind = "target"
        /\ l_ret.detects = 0
        /\ ~l_ret.transfer

\* A disabled engine was called on two frames that both show a mouth.
DisabledCalledOnTwoMouths ==
    /\ ~l_enabled
    /\ l_ret.kind = "target"
    /\ l_ret.sface.found
    /\ l_ret.tface.found

\* C20: a process_frame call on an enabled engine for which detection found
\* no mouth landmarks in the source frame, in the swapped frame or in both
\* returned the swapped frame it was given and did not raise.
NoLandmarksReturnsTarget ==
    (l_enabled /\ l_ret.kind # "none" /\ (~l_ret.sface.found \/ ~l_ret.tface.found)) =>
        l_ret.kind = "target"

\* An enabled engine found a mouth in the source frame and none in the
\* swapped frame.
TargetWithoutMouth ==
    /\ l_enabled
    /\ l_ret.detects = 2
    /\ l_ret.sface.found
    /\ ~l_ret.tface.found
    /\ l_ret.kind = "target"

\* C21: when the landmark model did not load at construction, the engine's
\* enabled flag is false and stays false, and no full pass ever hands a
\* frame to the engine, whatever toggle_lip_sync calls are made.
LipSyncStaysOff ==
    ~l_model =>
        /\ ~l_enabled
        /\ p_lip \in {"none", "skipped"}

\* With the landmark model missing, lip sync was toggled off and on again
\* and a full pass was then made with enable_lip_sync true.
FullPassAfterToggles ==
    /\ lip_sync = "engine" /\ ~l_model
    /\ call.op = "toggle_lip_sync" /\ call.ok
    /\ enable_lip_sync
    /\ p_lip = "skipped"

WorkersObserveStop ==
    /\ [](reads_after_stop <= 1 /\ puts_after_stop <= 1 /\ iters_after_stop <= 1)
    /\ [][(cap # "None" /\ cap' = "None") =>
              (capture_thread # "alive" /\ process_thread # "alive")]_vars

\* Both workers have exited after one more read, one more push and one
\* more frame each, and stop() is about to release the device.
WorkersExitedAfterOneMore ==
    /\ ctl_pc = "release"
    /\ reads_after_stop = 1 /\ puts_after_stop = 1 /\ iters_after_stop = 1
    /\ capture_thread = "dead" /\ process_thread = "dead"

\* C24: the raw frame an output derives from was captured no earlier than
\* the raw frame the previous output of the run derives from, and both
\* channels hold their frames in capture order.
OutputsInCaptureOrder ==
    /\ (OutputDecided /\ prev_out # NoOutput) => prev_out.raw <= p_out.raw
    /\ \A i, j \in 1..Len(output_queue) :
           i < j => output_queue[i].raw <= output_queue[j].raw
    /\ \A i, j \in 1..Len(input_queue) : i < j => input_queue[i] < input_queue[j]

\* The first frame was evicted from the raw channel; the outputs derive
\* from the second and the third.
OutputsAfterEviction ==
    output_queue = <<[raw |-> 2, full |-> FALSE], [raw |-> 3, full |-> TRUE]>>

\* C25: every put_nowait step of the capture loop and of the processing
\* loop appends the frame it pushes at the tail of its channel.
PushAlwaysInserts ==
    /\ [][CapturePut => input_queue' = Append(input_queue, c_frame)]_vars
    /\ [][ProcessPut => output_queue' = Append(output_queue, p_out)]_vars

\* Three outputs were pushed with no get_frame in between: the first was
\* evicted and the third is the newest element.
OutputEvictedOldest ==
    /\ Len(out_since) = 3
    /\ p_pc = "p_while"
    /\ output_queue = <<out_since[2], out_since[3]>>

\* C26: a device read that fails is followed by the idle wait before the
\* loop returns to its test.
FailedReadWaits ==
    [][(CaptureRead /\ cap = "opened" /\ next_frame' = next_frame) => c_waited']_vars

\* C27: the overlay is never drawn on a frame that was handed to the
\* callback or that sits in the output channel.
OverlayOnOwnFrame ==
    [][ProcessOverlay =>
          /\ p_out # callback_frame
          /\ \A i \in 1..Len(output_queue) : output_queue[i] # p_out]_vars

\* C28: at most one capture worker and one processing worker are live; the
\* raw channel is changed only by the capture worker (put, with its eviction)
\* and by the processing worker's get, the output channel only by the
\* processing worker (put, with its eviction) and by the client's get_frame;
\* stop() drains them only when no worker is alive.
SingleProducerSingleConsumer ==
    /\ [](n_capture <= 1 /\ n_process <= 1)
    /\ [][input_queue' # input_queue =>
              \/ CaptureEvict \/ CapturePut \/ ProcessGet
              \/ (StopDrainInGet /\ capture_thread # "alive" /\ process_thread # "alive")]_vars
    /\ [][output_queue' # output_queue =>
              \/ ProcessEvict \/ ProcessPut \/ GetFrame
              \/ (StopDrainOutGet /\ capture_thread # "alive" /\ process_thread # "alive")]_vars

\* The second run's capture worker is about to push while it is the only
\* capture worker.
SecondRunPushes ==
    /\ starts = 2
    /\ n_capture = 1 /\ n_process = 1
    /\ c_pc = "c_put"

\* C29: while a capture worker is alive the device handle is the opened
\* one; the handle is assigned only when no capture worker is alive; and
\* after a stop() of a running pipeline has released it, it is None.
DeviceOwnedByCapture ==
    /\ [](capture_thread = "alive" => cap = "opened")
    /\ [][cap' # cap => capture_thread # "alive"]_vars
    /\ []((call.op = "stop" /\ call.pre /\ ctl_pc \in {"drain_in", "drain_in_get", "drain_out", "drain_out_get", "idle"})
              => cap = "None")

\* stop() has just released a device the capture worker had read from.
DeviceReleasedAfterReads ==
    /\ call.op = "stop" /\ call.pre
    /\ ctl_pc = "drain_in"
    /\ cap = "None"
    /\ next_frame > 1

\* C30: frame_count changes only in the processing loop's frame-rate
\* update, once per output frame: it goes up by one while the window is
\* open and back to zero when the window has closed; it never exceeds the
\* number of frames the processing loop has counted.
FpsCountsProcessing ==
    /\ [][frame_count' # frame_count => ProcessOverlay]_vars
    /\ [][ProcessOverlay =>
              \/ (fps_window' = "closed" /\ frame_count' = 0)
              \/ (fps_window' = "open" /\ frame_count' = frame_count + 1)]_vars
    /\ [](frame_count <= frame_counter)

\* The window closed at the third output after two outputs had been counted.
WindowClosedAtThird ==
    /\ frame_counter = 3
    /\ fps_window = "closed"
    /\ frame_count = 0
    /\ p_pc = "p_cb"
    /\ next_frame = 4

\* C31: a pass of the swap stage that had a source reference, found m >= 1
\* faces and in which every swap returned gives swap(...swap(swap(copy, face 1),
\* face 2)..., face m): the faces are composited in detection order, each swap
\* is given the image the previous one returned (the first one the copy of the
\* input), and the input frame itself is not drawn on.
CompositesIntoRunningBuffer ==
    s_result = "swapped" =>
        /\ s_had_source /\ s_detected /\ s_found >= 1
        /\ Len(s_buf) = s_found /\ Len(s_in) = s_found
        /\ \A i \in 1..s_found :
              /\ s_buf[i].face = i
              /\ s_in[i] = SubSeq(s_buf, 1, i - 1)
        /\ s_frame = "intact"

\* a pass that composited two or more faces has returned
TwoFacesComposited == s_result = "swapped" /\ s_found >= 2 /\ Len(s_in) >= 2

\* C32: whenever transfer_mouth pads the two landmark rectangles, each padded
\* rectangle lies inside the image and reaches at most 10 pixels beyond the
\* landmark rectangle on every side.
WithinMargin(r, q) ==
    /\ q.x >= 0 /\ q.y >= 0 /\ q.x + q.w <= ImgW /\ q.y + q.h <= ImgH
    /\ q.x <= ImgW /\ q.y <= ImgH
    /\ r.x - q.x <= Padding /\ r.y - q.y <= Padding
    /\ (q.x + q.w) - (r.x + r.w) <= Padding
    /\ (q.y + q.h) - (r.y + r.h) <= Padding

PaddedWithinMargin ==
    (l_ret.transfer /\ l_ret.sface.found /\ l_ret.tface.found) =>
        /\ WithinMargin(l_ret.sface.rect, l_ret.src)
        /\ WithinMargin(l_ret.tface.rect, l_ret.tgt)

\* C33: when the padded source or target rectangle of a transfer has no area
\* (zero or negative width or height), the call returns target unchanged and
\* does not raise.
EmptyRectangleSkipsTransfer ==
    (/\ l_ret.transfer /\ l_ret.sface.found /\ l_ret.tface.found
     /\ \/ l_ret.src.w <= 0 \/ l_ret.src.h <= 0
        \/ l_ret.tgt.w <= 0 \/ l_ret.tgt.h <= 0)
    => l_ret.kind = "target"

\* the source mouth has an area and the target rectangle, padded, has none
TargetRectangleEmpty ==
    /\ l_ret.transfer /\ l_ret.sface.found /\ l_ret.tface.found
    /\ l_ret.src.w > 0 /\ l_ret.src.h > 0
    /\ l_ret.tgt.w <= 0

\* C34: when both padded rectangles have an area and the seamless clone
\* fails, the call returns the alpha blend of the first pass over the padded
\* target rectangle, and does not raise.
FailedCloneKeepsBlend ==
    (/\ l_ret.transfer /\ l_ret.sface.found /\ l_ret.tface.found
     /\ l_ret.src.w > 0 /\ l_ret.src.h > 0
     /\ l_ret.tgt.w > 0 /\ l_ret.tgt.h > 0
     /\ ~l_ret.clone_ok)
    => l_ret.kind = "blend"

\* a transfer over two mouths inside the image whose seamless clone failed
CloneFailedOnTransfer ==
    /\ l_ret.transfer /\ l_ret.sface.found /\ l_ret.tface.found
    /\ l_ret.src.w > 0 /\ l_ret.src.h > 0
    /\ l_ret.tgt.w > 0 /\ l_ret.tgt.h > 0
    /\ ~l_ret.clone_ok /\ l_ret.kind = "blend"

\* C35: every time the capture loop's eviction removes a frame from the raw
\* channel, the channel holds QueueMax frames at that moment.
EvictsOnlyFromFullChannel ==
    [][(CaptureEvict /\ Len(input_queue') < Len(input_queue))
          => Len(input_queue) = QueueMax]_vars

\* C36: under fair scheduling, with a second thread calling get_frame at any
\* moment, a stop() that has reached its channel drain returns.
DrainReturns ==
    (ctl_pc \in {"drain_in", "drain_in_get", "drain_out", "drain_out_get"})
        ~> (ctl_pc = "idle")

\* C37: while the pipeline is stopped and the client is outside stop() (after
\* a stop() returned, until the next start() that launches workers) no step
\* invokes the callback or pushes to a channel, both channels are empty, no
\* worker is alive and get_frame returns 'none'; and every frame in a channel,
\* and every frame handed to the callback, derives from a frame the camera
\* delivered after the current run was started, while frame_counter is never
\* reset.
QuietUntilRestart ==
    /\ []((~is_running /\ ctl_pc = "idle") =>
            /\ input_queue = <<>> /\ output_queue = <<>>
            /\ capture_thread # "alive" /\ process_thread # "alive")
    /\ [][(~is_running /\ ctl_pc = "idle") =>
            /\ cb_calls' <= cb_calls /\ callback_frame' = callback_frame
            /\ Len(input_queue') <= Len(input_queue)
            /\ Len(output_queue') <= Len(output_queue)
            /\ (GetFrame => call'.ret = NoOutput)]_vars
    /\ [](/\ \A i \in 1..Len(input_queue) : input_queue[i] >= run_from
          /\ \A i \in 1..Len(output_queue) : output_queue[i].raw >= run_from)
    /\ [][(cb_calls' > cb_calls) => callback_frame'.raw >= run_from]_vars
    /\ [][frame_counter' >= frame_counter]_vars

\* in a second run, with the counter carried over from the first, a frame
\* that got no full pass has been output
SecondRunSkippedFrameOutput ==
    /\ starts = 2 /\ is_running /\ run_from > 1
    /\ frame_counter >= run_from
    /\ output_queue # <<>>
    /\ ~output_queue[Len(output_queue)].full
    /\ full_passes >= 1


====
